---- MODULE Spec2Model ----
(***************************************************************************)
(* Model of the cat tagline pipeline (src/cat_tagline_generator.py):       *)
(* the CatTaglineGenerator constructor and run_full_pipeline with its four *)
(* steps fetch_random_cat_image, save_image_locally, describe_image and    *)
(* generate_funny_tagline.  The external collaborators (the image API, the *)
(* generation API, Pillow and the file system) are nondeterministic: each  *)
(* step draws the collaborator's answer from a small set.                  *)
(***************************************************************************)
EXTENDS Naturals, Sequences, FiniteSets

VARIABLES
    env,           \* value of the OPENAI_API_KEY environment variable
    sessions,      \* the callers (CLI run, UI session) that are active
    file,          \* content of the file current_cat.jpg on local storage
    pc,            \* per caller: position in __init__ / run_full_pipeline
    ctor_arg,      \* per caller: api_key argument given to __init__
    env_read,      \* per caller: whether __init__ called os.getenv
    generator,     \* per caller: the constructed object, or no object
    raised,        \* per caller: exception that left __init__ or the run
    outcome,       \* per caller: how each step of the current run ended
    printed,       \* per caller: last error reported on the output stream
    image_data,    \* per caller: run_full_pipeline's local image_data
    image_path,    \* per caller: run_full_pipeline's local image_path
    description,   \* per caller: run_full_pipeline's local description
    tagline,       \* per caller: run_full_pipeline's local tagline
    result,        \* per caller: dict returned by run_full_pipeline
    calls,         \* per caller: invocations of each step in the current run
    save_arg,      \* per caller: bytes save_image_locally was called with
    describe_arg,  \* per caller: bytes describe_image was called with
    tagline_arg,   \* per caller: text generate_funny_tagline was called with
    user_content,  \* per caller: user message of the caption request
    caption_text,  \* per caller: message content the caption request got
    direct,        \* per caller: last call of generate_funny_tagline made
                   \* by the caller itself, outside a run
    mode,          \* where the web app runs: "local" or "deployed"
    secrets,       \* value of OPENAI_API_KEY in the app's secrets store
    ui_stage,      \* per caller: how far the web app's script has got
    ui_key,        \* per caller: the web app's local api_key
    banners,       \* per caller: messages the web app's last script run shows
    shown          \* per caller: image and tagline the web app displays

vars == <<env, sessions, file, pc, ctor_arg, env_read, generator, raised,
          outcome, printed, image_data, image_path, description, tagline, result,
          calls, save_arg, describe_arg, tagline_arg, user_content,
          caption_text, direct, mode, secrets, ui_stage, ui_key, banners,
          shown>>

\* the state of the web app
uiVars == <<mode, secrets, ui_stage, ui_key, banners, shown>>

(***************************************************************************)
(* Bounds of the model.                                                    *)
(***************************************************************************)
\* longest image body the image API returns
MaxBytes == 2
\* longest text the generation API returns
MaxLen == 2

AllSessions == {"s1", "s2"}

(***************************************************************************)
(* Python values: None, str and bytes, and their truth value.              *)
(***************************************************************************)
PyNone == [tag |-> "None"]
PyStr(s) == [tag |-> "str", val |-> s]
PyBytes(b) == [tag |-> "bytes", val |-> b]

SeqsUpTo(S, n) == UNION {[1..k -> S] : k \in 0..n}

\* bool(v) for None, str and bytes: None and the empty string are falsy
Truthy(v) == v.tag # "None" /\ Len(v.val) > 0

\* str.strip(): remove leading and trailing whitespace
Whitespace == {" "}
RECURSIVE LStrip(_)
LStrip(s) == IF s # <<>> /\ Head(s) \in Whitespace THEN LStrip(Tail(s)) ELSE s
RECURSIVE RStrip(_)
RStrip(s) ==
    IF s # <<>> /\ s[Len(s)] \in Whitespace
    THEN RStrip(SubSeq(s, 1, Len(s) - 1))
    ELSE s
\* mutant: only the leading whitespace is removed
StripLeft(s) == LStrip(s)
Strip(s) == RStrip(LStrip(s))

(***************************************************************************)
(* Inputs: the environment, the constructor argument and the answers of    *)
(* the collaborators.                                                      *)
(***************************************************************************)
Credentials == {PyNone, PyStr(<<>>), PyStr(<<"k1">>), PyStr(<<"k2">>)}

ByteValues == {"M", "x"}
Bodies == SeqsUpTo(ByteValues, MaxBytes)

\* the exceptions of class requests.RequestException
RequestExceptions == {"Timeout", "ConnectionError", "HTTPError"}

\* what requests.get gives: an exception (of requests, or another one such
\* as the OSError of an unusable CA bundle), or a response
FetchReplies ==
    {[exc |-> e, status |-> 0, content |-> <<>>] :
        e \in {"Timeout", "ConnectionError", "OSError"}}
    \cup {[exc |-> "none", status |-> st, content |-> <<>>] : st \in {404, 500}}
    \cup {[exc |-> "none", status |-> 200, content |-> b] : b \in Bodies}

Chars == {" ", "a"}
Texts == SeqsUpTo(Chars, MaxLen)
\* a text with whitespace on both sides, as a model may answer
PaddedTexts == {<<" ", "a", " ">>}

\* what client.chat.completions.create gives: an API exception, or a
\* response whose message content is None or a string
ApiReplies ==
    {[exc |-> e, content |-> PyNone] :
        e \in {"AuthenticationError", "RateLimitError"}}
    \cup {[exc |-> "none", content |-> PyNone]}
    \cup {[exc |-> "none", content |-> PyStr(t)] : t \in Texts \cup PaddedTexts}

\* whether Pillow can write the opened image to the destination
WriteReplies == {"ok", "OSError"}

(***************************************************************************)
(* The file on local storage.                                              *)
(***************************************************************************)
DefaultFilename == <<"current_cat.jpg">>
NoFile == [tag |-> "absent"]
PartialFile == [tag |-> "partial"]
ImageFile(pixels) == [tag |-> "image", pixels |-> pixels]

\* PIL.Image.open: the bytes are an image iff they start with a format marker
IsImage(b) == b # <<>> /\ Head(b) = "M"
\* the picture the bytes decode to
Decode(b) == Tail(b)

(***************************************************************************)
(* CatTaglineGenerator.__init__                                            *)
(***************************************************************************)
\* mutant: the environment variable is preferred to the argument
ResolveKeyEnvFirst(api_key, envv) == IF Truthy(envv) THEN envv ELSE api_key

\* the credential __init__ resolves: the argument if truthy, else os.getenv
ResolveKey(api_key, envv) == IF Truthy(api_key) THEN api_key ELSE envv

\* whether __init__ reads the environment variable
ReadsEnv(api_key) == ~Truthy(api_key)

\* mutant: the check is "is None", so an empty key passes
KeyMissingIsNone(key) == key.tag = "None"

\* the fail-fast check: ValueError when the resolved key is missing
KeyMissing(key) == ~Truthy(key)

NoGenerator == [tag |-> "None"]
Generator(key) ==
    [tag |-> "CatTaglineGenerator", api_key |-> key,
     cataas_base_url |-> "https://cataas.com"]

(***************************************************************************)
(* The four steps as functions of their argument and of the collaborator's *)
(* answer.  Each gives the exception that leaves the step ("none" if it    *)
(* returns), the value returned and the error it prints.                   *)
(***************************************************************************)
Returns(v, msg) == [raised |-> "none", value |-> v, printed |-> msg]
Raises(e) == [raised |-> e, value |-> PyNone, printed |-> e]

\* the bytes behind a value; io.BytesIO(None) is the empty buffer
BytesOf(v) == IF v.tag = "bytes" THEN v.val ELSE <<>>

\* response.raise_for_status(): HTTPError for a 4xx or 5xx status
StatusIsError(st) == st >= 400 /\ st < 600

\* an exception the step does not catch: nothing is printed
Escapes(e) == [raised |-> e, value |-> PyNone, printed |-> "none"]

fetch_random_cat_image(reply) ==
    IF reply.exc \in RequestExceptions THEN Returns(PyNone, reply.exc)
    ELSE IF reply.exc # "none" THEN Escapes(reply.exc)
    ELSE IF StatusIsError(reply.status) THEN Returns(PyNone, "HTTPError")
    ELSE Returns(PyBytes(reply.content), "none")

\* mutant: a failed save returns None instead of raising
save_image_locally_sentinel(data, filename, wr) ==
    IF ~IsImage(BytesOf(data)) THEN Returns(PyNone, "UnidentifiedImageError")
    ELSE IF wr # "ok" THEN Returns(PyNone, wr)
    ELSE Returns(PyStr(filename), "none")

save_image_locally(data, filename, wr) ==
    IF ~IsImage(BytesOf(data)) THEN Raises("UnidentifiedImageError")
    ELSE IF wr # "ok" THEN Raises(wr)
    ELSE Returns(PyStr(filename), "none")

\* the file after save_image_locally: Image.open fails before the file is
\* touched; a failed write leaves the old file or a partial one
FilesAfterSave(old, data, wr) ==
    IF ~IsImage(BytesOf(data)) THEN {old}
    ELSE IF wr # "ok" THEN {old, PartialFile}
    ELSE {ImageFile(Decode(BytesOf(data)))}

describe_image(data, reply) ==
    IF data.tag # "bytes" THEN Returns(PyNone, "TypeError")
    ELSE IF reply.exc # "none" THEN Returns(PyNone, reply.exc)
    ELSE Returns(reply.content, "none")

\* the user message of the caption request
PromptHead == <<"Based on this cat image description, create a funny tagline:\n\n">>
PromptTail == <<"\n\nMake it punny and internet-cat-meme worthy!">>
TextOf(v) == IF v.tag = "str" THEN v.val ELSE <<"None">>
\* mutant: the description is trimmed before it is embedded
UserContentStripped(image_description) ==
    PromptHead \o Strip(TextOf(image_description)) \o PromptTail

UserContent(image_description) ==
    PromptHead \o TextOf(image_description) \o PromptTail

generate_funny_tagline(image_description, reply) ==
    IF reply.exc # "none" THEN Returns(PyNone, reply.exc)
    ELSE IF reply.content.tag # "str" THEN Returns(PyNone, "AttributeError")
    ELSE Returns(PyStr(Strip(reply.content.val)), "none")

(***************************************************************************)
(* run_full_pipeline: the checks after each step and the dicts returned.   *)
(***************************************************************************)
PyDict(d) == [tag |-> "dict", val |-> d]
ErrorResult(msg) == PyDict([error |-> PyStr(<<msg>>)])
SuccessResult(path, desc, tag) ==
    PyDict([image_path |-> path, description |-> desc, tagline |-> tag,
            success |-> TRUE])

\* mutants: the check after the step is missing
FetchFailedUnchecked(data) == FALSE
DescribeFailedUnchecked(desc) == FALSE

\* mutant: describe is called although saving raised
SaveFailedUnchecked(out) == FALSE

FetchFailed(data) == ~Truthy(data)
SaveFailed(out) == out.raised # "none"
DescribeFailed(desc) == ~Truthy(desc)
TaglineFailed(tag) == ~Truthy(tag)

\* mutant: the message of the next step, copied
FetchErrorCopied == ErrorResult("Failed to save cat image")

FetchError == ErrorResult("Failed to fetch cat image")
SaveError == ErrorResult("Failed to save cat image")
DescribeError == ErrorResult("Failed to describe cat image")
TaglineError == ErrorResult("Failed to generate tagline")

\* dict.get(key): None when the key is absent
Get(d, key) == IF d.tag = "dict" /\ key \in DOMAIN d.val THEN d.val[key] ELSE PyNone
Keys(d) == IF d.tag = "dict" THEN DOMAIN d.val ELSE {}

NoCalls == [fetch |-> 0, save |-> 0, describe |-> 0, tagline |-> 0]

NoOutcomes ==
    [fetch |-> "notrun", save |-> "notrun", describe |-> "notrun",
     tagline |-> "notrun"]

\* how a step ended for its caller: it raised, returned None, or gave a value
OutcomeOf(out) ==
    IF out.raised # "none" THEN "raised"
    ELSE IF out.value.tag = "None" THEN "none"
    ELSE "value"

\* a call of generate_funny_tagline by the caller itself: the argument, the
\* user message of the request it sent, and how it ended
NoDirect ==
    [called |-> FALSE, arg |-> PyNone, request |-> <<>>, raised |-> "none",
     value |-> PyNone]
DirectCall(image_description, reply) ==
    LET out == generate_funny_tagline(image_description, reply) IN
    [called |-> TRUE, arg |-> image_description,
     request |-> UserContent(image_description), raised |-> out.raised,
     value |-> out.value]

\* what the web app displays: the image of the file and the quoted tagline
NoDisplay == [image |-> NoFile, tagline |-> <<>>]

(***************************************************************************)
(* The web app (src/streamlit_app.py): main, generate_cat_content and      *)
(* display_results.                                                        *)
(***************************************************************************)
\* get_api_key: the environment when running locally, else the secrets
\* store (a missing secret gives None)
get_api_key(md, envv, sec) == IF md = "local" THEN envv ELSE sec

\* what st.text_input gives: the empty string until the user types a key
TypedKeys == {PyStr(<<>>), PyStr(<<"k1">>), PyStr(<<"k2">>)}

\* mutant: the deployed branch lacks the return when nothing was typed
MainStopsLocalOnly(md, envv, sec, typed) ==
    md = "local" /\ ~Truthy(get_api_key(md, envv, sec))

\* whether main returns before it shows the button
MainStops(md, envv, sec, typed) ==
    /\ ~Truthy(get_api_key(md, envv, sec))
    /\ md = "local" \/ ~Truthy(typed)

\* main's local api_key where main ends or calls generate_cat_content
MainKey(md, envv, sec, typed) ==
    IF Truthy(get_api_key(md, envv, sec)) \/ md = "local"
    THEN get_api_key(md, envv, sec)
    ELSE typed

Banner(kind, text) == [kind |-> kind, text |-> text]

\* the messages of main's API key section
MainBanners(md, envv, sec, typed) ==
    IF md = "local"
    THEN IF ~Truthy(get_api_key(md, envv, sec))
         THEN <<Banner("error", <<"Please set your OPENAI_API_KEY in the .env file to use this app!">>),
                Banner("info", <<"Copy .env.example to .env and add your OpenAI API key">>)>>
         ELSE <<Banner("success", <<"Running locally with API key from .env file">>)>>
    ELSE IF ~Truthy(get_api_key(md, envv, sec))
         THEN <<Banner("warning", <<"OpenAI API Key Required">>),
                Banner("info", <<"This app is running on Streamlit Community Cloud. Please enter your OpenAI API key below:">>)>>
              \o (IF ~Truthy(typed)
                  THEN <<Banner("info", <<"Please enter your OpenAI API key above to continue">>)>>
                  ELSE <<Banner("success", <<"API key provided - ready to generate cat content!">>)>>)
         ELSE <<Banner("success", <<"Running deployed with API key from Streamlit secrets">>)>>

\* str(e): the exception's own message, named here by its class
ExcText(e) == <<e>>

\* result.get("success") is truthy
Succeeded(res) == "success" \in Keys(res) /\ res.val.success = TRUE

\* str.strip('"')
Quote == "\""
RECURSIVE LStripQuotes(_)
LStripQuotes(s) ==
    IF s # <<>> /\ Head(s) = Quote THEN LStripQuotes(Tail(s)) ELSE s
RECURSIVE RStripQuotes(_)
RStripQuotes(s) ==
    IF s # <<>> /\ s[Len(s)] = Quote
    THEN RStripQuotes(SubSeq(s, 1, Len(s) - 1))
    ELSE s
StripQuotes(s) == RStripQuotes(LStripQuotes(s))

\* display_results: the image read from the saved path, then the tagline;
\* Image.open raises on a file that is no image
display_results(res, f) ==
    IF f.tag = "partial"
    THEN [raised |-> "UnidentifiedImageError", banners |-> <<>>,
          shown |-> NoDisplay]
    ELSE IF Truthy(Get(res, "tagline"))
    THEN [raised |-> "none", banners |-> <<>>,
          shown |-> [image |-> f,
                     tagline |-> <<Quote>> \o StripQuotes(res.val.tagline.val)
                                 \o <<Quote>>]]
    ELSE [raised |-> "none",
          banners |-> <<Banner("error", <<"No tagline found in results!">>)>>,
          shown |-> [image |-> f, tagline |-> <<>>]]

\* generate_cat_content after the generator was constructed and run: exc is
\* the exception that left the constructor or the run ("none" if none did)
generate_cat_content(res, exc, f) ==
    IF exc # "none"
    THEN [banners |-> <<Banner("error", <<"Unexpected error: ">> \o ExcText(exc))>>,
          shown |-> NoDisplay]
    ELSE IF Succeeded(res)
    THEN LET d == display_results(res, f) IN
         IF d.raised # "none"
         THEN [banners |-> <<Banner("success", <<"Generated new cat content!">>),
                             Banner("error", <<"Unexpected error: ">> \o ExcText(d.raised))>>,
               shown |-> NoDisplay]
         ELSE [banners |-> <<Banner("success", <<"Generated new cat content!">>)>>
                           \o d.banners,
               shown |-> d.shown]
    ELSE [banners |-> <<Banner("error",
                <<"Error: ">> \o
                (IF "error" \in Keys(res) THEN res.val.error.val
                 ELSE <<"Unknown error occurred">>))>>,
          shown |-> NoDisplay]

(***************************************************************************)
(* State machine.                                                          *)
(***************************************************************************)
Upd(f, s, v) == [f EXCEPT ![s] = v]

InitFor(active) ==
    /\ env \in Credentials
    /\ sessions = active
    /\ file = NoFile
    /\ pc = [s \in AllSessions |-> "new"]
    /\ ctor_arg = [s \in AllSessions |-> PyNone]
    /\ env_read = [s \in AllSessions |-> FALSE]
    /\ generator = [s \in AllSessions |-> NoGenerator]
    /\ raised = [s \in AllSessions |-> "none"]
    /\ outcome = [s \in AllSessions |-> NoOutcomes]
    /\ printed = [s \in AllSessions |-> "none"]
    /\ image_data = [s \in AllSessions |-> PyNone]
    /\ image_path = [s \in AllSessions |-> PyNone]
    /\ description = [s \in AllSessions |-> PyNone]
    /\ tagline = [s \in AllSessions |-> PyNone]
    /\ result = [s \in AllSessions |-> PyNone]
    /\ calls = [s \in AllSessions |-> NoCalls]
    /\ save_arg = [s \in AllSessions |-> PyNone]
    /\ describe_arg = [s \in AllSessions |-> PyNone]
    /\ tagline_arg = [s \in AllSessions |-> PyNone]
    /\ user_content = [s \in AllSessions |-> <<>>]
    /\ caption_text = [s \in AllSessions |-> PyNone]
    /\ direct = [s \in AllSessions |-> NoDirect]
    /\ mode \in {"local", "deployed"}
    /\ secrets \in Credentials
    /\ ui_stage = [s \in AllSessions |-> "none"]
    /\ ui_key = [s \in AllSessions |-> PyNone]
    /\ banners = [s \in AllSessions |-> <<>>]
    /\ shown = [s \in AllSessions |-> NoDisplay]

Init == InitFor({"s1"})

\* CatTaglineGenerator(api_key=arg)
ConstructWith(s, arg) ==
    LET key == ResolveKey(arg, env) IN
    /\ ctor_arg' = Upd(ctor_arg, s, arg)
    /\ env_read' = Upd(env_read, s, ReadsEnv(arg))
    /\ IF KeyMissing(key)
       THEN /\ raised' = Upd(raised, s, "ValueError")
            /\ pc' = Upd(pc, s, "config_error")
            /\ UNCHANGED generator
       ELSE /\ generator' = Upd(generator, s, Generator(key))
            /\ pc' = Upd(pc, s, "ready")
            /\ UNCHANGED raised

\* a caller other than the web app constructs the generator
Construct(s) ==
    /\ pc[s] = "new"
    /\ ui_stage[s] = "none"
    /\ \E arg \in Credentials : ConstructWith(s, arg)
    /\ UNCHANGED <<uiVars, caption_text, direct>>
    /\ UNCHANGED <<env, sessions, file, outcome, printed, image_data,
                   image_path, description, tagline, result, calls, save_arg,
                   describe_arg, tagline_arg, user_content>>

\* entry of run_full_pipeline: a new run with fresh locals
StartRun(s) ==
    /\ \/ pc[s] = "ready"
       \/ pc[s] \in {"returned", "raised"} /\ ui_stage[s] = "none"
    /\ pc' = Upd(pc, s, "fetch")
    /\ raised' = Upd(raised, s, "none")
    /\ outcome' = Upd(outcome, s, NoOutcomes)
    /\ printed' = Upd(printed, s, "none")
    /\ image_data' = Upd(image_data, s, PyNone)
    /\ image_path' = Upd(image_path, s, PyNone)
    /\ description' = Upd(description, s, PyNone)
    /\ tagline' = Upd(tagline, s, PyNone)
    /\ result' = Upd(result, s, PyNone)
    /\ calls' = Upd(calls, s, NoCalls)
    /\ save_arg' = Upd(save_arg, s, PyNone)
    /\ describe_arg' = Upd(describe_arg, s, PyNone)
    /\ tagline_arg' = Upd(tagline_arg, s, PyNone)
    /\ user_content' = Upd(user_content, s, <<>>)
    /\ caption_text' = Upd(caption_text, s, PyNone)
    /\ direct' = Upd(direct, s, NoDirect)
    /\ UNCHANGED uiVars
    /\ UNCHANGED <<env, sessions, file, ctor_arg, env_read, generator>>

\* mutant: a failed fetch is tried once more
FetchRetry(s) ==
    /\ pc[s] = "fetch"
    /\ \E reply \in FetchReplies :
        LET out == fetch_random_cat_image(reply) IN
        /\ calls' = Upd(calls, s, [calls[s] EXCEPT !.fetch = @ + 1])
        /\ outcome' = Upd(outcome, s, [outcome[s] EXCEPT !.fetch = OutcomeOf(out)])
        /\ printed' = Upd(printed, s, out.printed)
        /\ image_data' = Upd(image_data, s, out.value)
        /\ IF out.raised # "none"
           THEN /\ raised' = Upd(raised, s, out.raised)
                /\ pc' = Upd(pc, s, "raised")
                /\ UNCHANGED result
           ELSE IF FetchFailed(out.value) /\ calls[s].fetch = 0
           THEN UNCHANGED <<pc, result, raised>>
           ELSE IF FetchFailed(out.value)
           THEN /\ result' = Upd(result, s, FetchError)
                /\ pc' = Upd(pc, s, "returned")
                /\ UNCHANGED raised
           ELSE /\ pc' = Upd(pc, s, "save")
                /\ UNCHANGED <<result, raised>>
    /\ UNCHANGED <<uiVars, caption_text, direct>>
    /\ UNCHANGED <<env, sessions, file, ctor_arg, env_read, generator,
                   image_path, description, tagline, save_arg, describe_arg,
                   tagline_arg, user_content>>

\* step 1: fetch the image, return the error dict if there is none
Fetch(s) ==
    /\ pc[s] = "fetch"
    /\ \E reply \in FetchReplies :
        LET out == fetch_random_cat_image(reply) IN
        /\ calls' = Upd(calls, s, [calls[s] EXCEPT !.fetch = @ + 1])
        /\ outcome' = Upd(outcome, s, [outcome[s] EXCEPT !.fetch = OutcomeOf(out)])
        /\ printed' = Upd(printed, s, out.printed)
        /\ image_data' = Upd(image_data, s, out.value)
        /\ IF out.raised # "none"
           THEN /\ raised' = Upd(raised, s, out.raised)
                /\ pc' = Upd(pc, s, "raised")
                /\ UNCHANGED result
           ELSE IF FetchFailed(out.value)
           THEN /\ result' = Upd(result, s, FetchError)
                /\ pc' = Upd(pc, s, "returned")
                /\ UNCHANGED raised
           ELSE /\ pc' = Upd(pc, s, "save")
                /\ UNCHANGED <<result, raised>>
    /\ UNCHANGED <<uiVars, caption_text, direct>>
    /\ UNCHANGED <<env, sessions, file, ctor_arg, env_read, generator,
                   image_path, description, tagline, save_arg, describe_arg,
                   tagline_arg, user_content>>

\* mutant: a run waits while another run is between its save and its return
FileHeld(s) == \A o \in sessions \ {s} : pc[o] \notin {"describe", "tagline"}

\* save_image_locally takes no lock: the file is always free to write
FileFree(s) == TRUE

\* step 2: save the image, return the error dict if saving raised
Save(s) ==
    /\ pc[s] = "save"
    /\ FileFree(s)
    /\ \E wr \in WriteReplies :
        LET out == save_image_locally(image_data[s], DefaultFilename, wr) IN
        /\ calls' = Upd(calls, s, [calls[s] EXCEPT !.save = @ + 1])
        /\ outcome' = Upd(outcome, s, [outcome[s] EXCEPT !.save = OutcomeOf(out)])
        /\ printed' = Upd(printed, s, out.printed)
        /\ save_arg' = Upd(save_arg, s, image_data[s])
        /\ file' \in FilesAfterSave(file, image_data[s], wr)
        /\ IF SaveFailed(out)
           THEN /\ result' = Upd(result, s, SaveError)
                /\ pc' = Upd(pc, s, "returned")
                /\ UNCHANGED image_path
           ELSE /\ image_path' = Upd(image_path, s, out.value)
                /\ pc' = Upd(pc, s, "describe")
                /\ UNCHANGED result
    /\ UNCHANGED <<uiVars, caption_text, direct>>
    /\ UNCHANGED <<env, sessions, ctor_arg, env_read, generator, raised,
                   image_data, description, tagline, describe_arg,
                   tagline_arg, user_content>>

\* step 3: describe the image, return the error dict if there is no text
Describe(s) ==
    /\ pc[s] = "describe"
    /\ \E reply \in ApiReplies :
        LET out == describe_image(image_data[s], reply) IN
        /\ calls' = Upd(calls, s, [calls[s] EXCEPT !.describe = @ + 1])
        /\ outcome' = Upd(outcome, s, [outcome[s] EXCEPT !.describe = OutcomeOf(out)])
        /\ printed' = Upd(printed, s, out.printed)
        /\ describe_arg' = Upd(describe_arg, s, image_data[s])
        /\ description' = Upd(description, s, out.value)
        /\ IF DescribeFailed(out.value)
           THEN /\ result' = Upd(result, s, DescribeError)
                /\ pc' = Upd(pc, s, "returned")
           ELSE /\ pc' = Upd(pc, s, "tagline")
                /\ UNCHANGED result
    /\ UNCHANGED <<uiVars, caption_text, direct>>
    /\ UNCHANGED <<env, sessions, file, ctor_arg, env_read, generator, raised,
                   image_data, image_path, tagline, save_arg, tagline_arg,
                   user_content>>

\* step 4: generate the tagline, return the error dict or the success dict
Tagline(s) ==
    /\ pc[s] = "tagline"
    /\ \E reply \in ApiReplies :
        LET out == generate_funny_tagline(description[s], reply) IN
        /\ calls' = Upd(calls, s, [calls[s] EXCEPT !.tagline = @ + 1])
        /\ outcome' = Upd(outcome, s, [outcome[s] EXCEPT !.tagline = OutcomeOf(out)])
        /\ printed' = Upd(printed, s, out.printed)
        /\ tagline_arg' = Upd(tagline_arg, s, description[s])
        /\ user_content' = Upd(user_content, s, UserContent(description[s]))
        /\ caption_text' = Upd(caption_text, s, reply.content)
        /\ tagline' = Upd(tagline, s, out.value)
        /\ result' = Upd(result, s,
                IF TaglineFailed(out.value)
                THEN TaglineError
                ELSE SuccessResult(image_path[s], description[s], out.value))
        /\ pc' = Upd(pc, s, "returned")
    /\ UNCHANGED <<uiVars, direct>>
    /\ UNCHANGED <<env, sessions, file, ctor_arg, env_read, generator, raised,
                   image_data, image_path, description, save_arg, describe_arg>>

\* the caller calls generate_funny_tagline itself, with any text
CallTagline(s) ==
    /\ pc[s] = "ready"
    /\ ui_stage[s] = "none"
    /\ \E t \in Texts, reply \in ApiReplies :
        direct' = Upd(direct, s, DirectCall(PyStr(t), reply))
    /\ UNCHANGED <<uiVars, caption_text>>
    /\ UNCHANGED <<env, sessions, file, pc, ctor_arg, env_read, generator,
                   raised, outcome, printed, image_data, image_path,
                   description, tagline, result, calls, save_arg,
                   describe_arg, tagline_arg, user_content>>

\* one run of the web app's script up to the button: main
UiMain(s) ==
    /\ pc[s] = "new"
    /\ ui_stage[s] \in {"none", "blocked", "idle"}
    /\ \E typed \in TypedKeys, clicked \in BOOLEAN :
        /\ banners' = Upd(banners, s, MainBanners(mode, env, secrets, typed))
        /\ ui_key' = Upd(ui_key, s, MainKey(mode, env, secrets, typed))
        /\ ui_stage' = Upd(ui_stage, s,
                IF MainStops(mode, env, secrets, typed) THEN "blocked"
                ELSE IF clicked THEN "clicked"
                ELSE "idle")
    /\ UNCHANGED <<mode, secrets, shown, caption_text, direct>>
    /\ UNCHANGED <<env, sessions, file, pc, ctor_arg, env_read, generator,
                   raised, outcome, printed, image_data, image_path,
                   description, tagline, result, calls, save_arg,
                   describe_arg, tagline_arg, user_content>>

\* generate_cat_content: CatTaglineGenerator(api_key=api_key)
UiConstruct(s) ==
    /\ pc[s] = "new"
    /\ ui_stage[s] = "clicked"
    /\ ConstructWith(s, ui_key[s])
    /\ UNCHANGED <<uiVars, caption_text, direct>>
    /\ UNCHANGED <<env, sessions, file, outcome, printed, image_data,
                   image_path, description, tagline, result, calls, save_arg,
                   describe_arg, tagline_arg, user_content>>

\* generate_cat_content: what it renders once the run has ended
UiShow(s) ==
    /\ ui_stage[s] = "clicked"
    /\ pc[s] \in {"config_error", "returned", "raised"}
    /\ LET view == generate_cat_content(result[s], raised[s], file) IN
        /\ banners' = Upd(banners, s, banners[s] \o view.banners)
        /\ shown' = Upd(shown, s, view.shown)
    /\ ui_stage' = Upd(ui_stage, s, "shown")
    /\ UNCHANGED <<mode, secrets, ui_key, caption_text, direct>>
    /\ UNCHANGED <<env, sessions, file, pc, ctor_arg, env_read, generator,
                   raised, outcome, printed, image_data, image_path,
                   description, tagline, result, calls, save_arg,
                   describe_arg, tagline_arg, user_content>>

Next ==
    \/ \E s \in sessions : UiMain(s)
    \/ \E s \in sessions : UiConstruct(s)
    \/ \E s \in sessions : UiShow(s)
    \/ \E s \in sessions : Construct(s)
    \/ \E s \in sessions : CallTagline(s)
    \/ \E s \in sessions : StartRun(s)
    \/ \E s \in sessions : Fetch(s)
    \/ \E s \in sessions : Save(s)
    \/ \E s \in sessions : Describe(s)
    \/ \E s \in sessions : Tagline(s)

Spec == Init /\ [][Next]_vars

\* two sessions of the locally run web app, one key in the environment
InitRace ==
    /\ InitFor(AllSessions)
    /\ env = PyStr(<<"k1">>)
    /\ mode = "local"
    /\ secrets = PyNone

\* what a session of the web app does
NextRace ==
    \/ \E s \in sessions : UiMain(s)
    \/ \E s \in sessions : UiConstruct(s)
    \/ \E s \in sessions : StartRun(s)
    \/ \E s \in sessions : Fetch(s)
    \/ \E s \in sessions : Save(s)
    \/ \E s \in sessions : Describe(s)
    \/ \E s \in sessions : Tagline(s)
    \/ \E s \in sessions : UiShow(s)

SpecRace == InitRace /\ [][NextRace]_vars

(***************************************************************************)
(* Vocabulary of the properties.                                           *)
(***************************************************************************)
Present(v) == v.tag # "None"
ContentKeys == {"image_path", "description", "tagline"}
Returned(s) == pc[s] = "returned"
\* the value a step handed to run_full_pipeline
StepValue(s, step) ==
    IF step = "fetch" THEN image_data[s]
    ELSE IF step = "save" THEN image_path[s]
    ELSE IF step = "describe" THEN description[s]
    ELSE tagline[s]
\* the step raised, returned None, or returned an empty value
StepFailed(s, step) ==
    \/ outcome[s][step] \in {"none", "raised"}
    \/ outcome[s][step] = "value" /\ ~Truthy(StepValue(s, step))
NoneAfter(s, steps) ==
    \A st \in steps : calls[s][st] = 0 /\ outcome[s][st] = "notrun"

\* success = true, path, description and caption present, no error field
SuccessShape(r) ==
    /\ Keys(r) = ContentKeys \cup {"success"}
    /\ r.val.success = TRUE
    /\ \A k \in ContentKeys : Present(r.val[k])

\* success = false, one error message, no content field
FailureShape(r) ==
    /\ Keys(r) = {"success", "error"}
    /\ r.val.success = FALSE

\* C1: every result returned by run_full_pipeline is either the success
\* shape (success = true, image_path, description and tagline present, no
\* error field) or the failure shape (success = false, exactly one error
\* message, no content field); no result mixes the two.
C1_TwoShapes ==
    \A s \in sessions :
        Returned(s) => SuccessShape(result[s]) \/ FailureShape(result[s])

\* C2: once a step of a run yields no result (None or an empty value) or
\* raises, the run has returned an error-tagged result and no later step
\* was invoked in it.
C2_ShortCircuit ==
    \A s \in sessions :
        /\ StepFailed(s, "fetch") =>
            NoneAfter(s, {"save", "describe", "tagline"})
        /\ StepFailed(s, "save") => NoneAfter(s, {"describe", "tagline"})
        /\ StepFailed(s, "describe") => NoneAfter(s, {"tagline"})
        /\ (\E st \in DOMAIN NoOutcomes : StepFailed(s, st)) =>
            /\ Returned(s)
            /\ "error" \in Keys(result[s])
            /\ Keys(result[s]) \cap (ContentKeys \cup {"success"}) = {}

C2_Witness ==
    \E s \in sessions :
        /\ outcome[s].save = "raised"
        /\ printed[s] = "OSError"
        /\ Returned(s)

FetchFailedCase(s) ==
    /\ calls[s].fetch > 0
    /\ printed[s] \in {"HTTPError", "Timeout"}

DescribeCallFailed(s) ==
    /\ outcome[s].fetch = "value"
    /\ outcome[s].save = "value"
    /\ outcome[s].describe = "none"

\* C4: when fetch and persist succeed and the description call fails, the
\* run stops before the caption call: generate_funny_tagline is invoked
\* zero times in that run and the result is an error result.
C4_NoCaptionAfterDescribeFailure ==
    \A s \in sessions :
        DescribeCallFailed(s) =>
            /\ Returned(s)
            /\ NoneAfter(s, {"tagline"})
            /\ user_content[s] = <<>>
            /\ "error" \in Keys(result[s])
            /\ "success" \notin Keys(result[s])

C4_Witness ==
    \E s \in sessions :
        /\ DescribeCallFailed(s)
        /\ printed[s] = "RateLimitError"
        /\ Returned(s)

NonImageFetched(s) ==
    /\ outcome[s].fetch = "value"
    /\ Truthy(image_data[s])
    /\ ~IsImage(image_data[s].val)
    /\ calls[s].save > 0

\* C5: when fetch returns bytes that do not decode as an image, persist
\* raises a decode error and the run returns
\* {success: false, error: "Failed to save cat image"}; describe and
\* caption are not invoked.
C5_NonImageBytes ==
    \A s \in sessions :
        NonImageFetched(s) =>
            /\ outcome[s].save = "raised"
            /\ printed[s] = "UnidentifiedImageError"
            /\ Returned(s)
            /\ result[s] = PyDict([success |-> FALSE,
                                   error |-> PyStr(<<"Failed to save cat image">>)])
            /\ NoneAfter(s, {"describe", "tagline"})

SaveWasCalled(s) == calls[s].save > 0
SaveGaveNoPath(s) == SaveWasCalled(s) /\ outcome[s].save # "value"

\* C6 as stated: a persist failure is never converted to a sentinel or to
\* the error-result path: save_image_locally raises to its caller, and the
\* failure is not swallowed into an error result the way fetch, describe
\* and caption failures are.
C6_AsStated ==
    \A s \in sessions :
        SaveGaveNoPath(s) =>
            /\ outcome[s].save = "raised"
            /\ "error" \notin Keys(result[s])

\* C6 amended: save_image_locally never returns a sentinel: for non-image
\* bytes or a write error it raises to its caller; run_full_pipeline, that
\* caller, catches the exception and returns the error result
\* "Failed to save cat image", so no exception leaves the run.
C6_PersistRaisesAndRunCatches ==
    \A s \in sessions :
        /\ SaveWasCalled(s) /\ ~IsImage(BytesOf(save_arg[s])) => SaveGaveNoPath(s)
        /\ SaveGaveNoPath(s) =>
            /\ outcome[s].save = "raised"
            /\ printed[s] \in {"UnidentifiedImageError", "OSError"}
            /\ raised[s] = "none"
            /\ Returned(s)
            /\ Get(result[s], "error") = PyStr(<<"Failed to save cat image">>)

C6_Witness ==
    \E s \in sessions :
        /\ SaveGaveNoPath(s)
        /\ ~IsImage(BytesOf(save_arg[s]))
        /\ Returned(s)

EmptyDescription(s) ==
    /\ outcome[s].fetch = "value"
    /\ outcome[s].save = "value"
    /\ outcome[s].describe = "value"
    /\ description[s] = PyStr(<<>>)

\* C7: when fetch and persist succeed and describe returns the empty
\* string, the run returns
\* {success: false, error: "Failed to describe cat image"} and the caption
\* collaborator is never called.
C7_EmptyDescription ==
    \A s \in sessions :
        EmptyDescription(s) =>
            /\ Returned(s)
            /\ result[s] = PyDict([success |-> FALSE,
                                   error |-> PyStr(<<"Failed to describe cat image">>)])
            /\ NoneAfter(s, {"tagline"})

\* whether text d occurs in the message u as a contiguous part
Contains(u, d) ==
    \E i \in 1..(Len(u) + 1) :
        /\ i + Len(d) - 1 <= Len(u)
        /\ SubSeq(u, i, i + Len(d) - 1) = d

CaptionReached(s) == calls[s].tagline > 0

\* C8: in every run that reaches the caption step, generate_funny_tagline
\* is invoked with exactly the description describe_image returned in that
\* run, the caption request's payload contains that exact text, and the
\* description field of a successful result is that same text.
C8_DescriptionPassedUnchanged ==
    \A s \in sessions :
        CaptionReached(s) =>
            /\ Present(description[s])
            /\ tagline_arg[s] = description[s]
            /\ Contains(user_content[s], description[s].val)
            /\ SubSeq(user_content[s], 2, Len(user_content[s]) - 1)
                = description[s].val
            /\ "success" \in Keys(result[s]) =>
                result[s].val.description = description[s]

C8_Witness ==
    \E s \in sessions :
        /\ CaptionReached(s)
        /\ description[s] = PyStr(<<" ", "a">>)
        /\ "success" \in Keys(result[s])

NoCredential(s) == ~Truthy(ctor_arg[s]) /\ ~Truthy(env)

\* C9: if no credential is resolvable (argument absent or empty and
\* OPENAI_API_KEY unset or empty), constructing CatTaglineGenerator fails
\* at once with a configuration error, no orchestrator exists afterwards,
\* and no network call (fetch, vision, caption) is made without a
\* credential.
C9_FailFast ==
    \A s \in sessions :
        /\ pc[s] # "new" /\ NoCredential(s) =>
            /\ pc[s] = "config_error"
            /\ raised[s] = "ValueError"
            /\ generator[s] = NoGenerator
        /\ generator[s] = NoGenerator =>
            /\ calls[s] = NoCalls
            /\ outcome[s] = NoOutcomes
        /\ calls[s] # NoCalls => Truthy(generator[s].api_key)

C9_Witness ==
    \E s \in sessions :
        /\ pc[s] = "config_error"
        /\ ctor_arg[s] = PyNone
        /\ env = PyStr(<<>>)

Constructed(s) == generator[s] # NoGenerator

\* the credential is resolved argument first, and the environment is read
\* only when no (non-empty) argument is given
C10_Resolution ==
    \A s \in sessions :
        Constructed(s) =>
            /\ Truthy(ctor_arg[s]) =>
                generator[s].api_key = ctor_arg[s] /\ ~env_read[s]
            /\ ~Truthy(ctor_arg[s]) =>
                generator[s].api_key = env /\ env_read[s]

\* no step changes the orchestrator once it is constructed
C10_Held ==
    \A s \in sessions : Constructed(s) => generator'[s] = generator[s]

RecoveredSteps == {"fetch", "describe", "tagline"}

\* C11: every failure of the image fetch, the vision call or the caption
\* call, whatever its kind, is recovered inside the orchestrator: the step
\* yields no result, the run returns an error result with a single error
\* message, and no exception of these steps leaves run_full_pipeline.
C11_AllFailuresRecovered ==
    \A s \in sessions :
        /\ pc[s] # "raised"
        /\ \A st \in RecoveredSteps :
            /\ outcome[s][st] # "raised"
            /\ outcome[s][st] = "none" =>
                Returned(s) /\ Keys(result[s]) = {"error"}

Steps == DOMAIN NoCalls
RunEnded(s) == pc[s] \in {"returned", "raised"}

\* C12: no retries: within one run each of the four steps is invoked at
\* most once, and one failure at any step ends that run.
C12_NoRetries ==
    \A s \in sessions :
        \A st \in Steps :
            /\ calls[s][st] <= 1
            /\ (calls[s][st] = 0) = (outcome[s][st] = "notrun")
            /\ StepFailed(s, st) => RunEnded(s)

C12_Witness ==
    \E s \in sessions :
        /\ \A st \in Steps : calls[s][st] = 1
        /\ outcome[s].tagline = "none"
        /\ RunEnded(s)

\* C13: generate_funny_tagline requires a non-empty description: called
\* with an empty description it raises a validation error and sends no
\* request with empty content to the generation API.
C13_EmptyDescriptionRejected ==
    \A s \in sessions :
        direct[s].called /\ direct[s].arg = PyStr(<<>>) =>
            /\ direct[s].raised # "none"
            /\ direct[s].request = <<>>

\* the messages generate_cat_content can show that embed no exception text
FixedErrorTexts ==
    {<<"Error: ", m>> :
        m \in {"Failed to fetch cat image", "Failed to save cat image",
               "Failed to describe cat image", "Failed to generate tagline",
               "Unknown error occurred"}}
ErrorBanners(s) ==
    {i \in 1..Len(banners[s]) : banners[s][i].kind = "error"}
GenerateFailed(s) == ui_stage[s] = "shown" /\ shown[s].tagline = <<>>

\* C14: every failing outcome of generate_cat_content (construction error,
\* pipeline step failure, unexpected exception) renders exactly one error
\* banner, and its text is a fixed message that does not embed the text of
\* the underlying exception.
C14_OneFixedErrorMessage ==
    \A s \in sessions :
        GenerateFailed(s) =>
            /\ Cardinality(ErrorBanners(s)) = 1
            /\ \A i \in ErrorBanners(s) : banners[s][i].text \in FixedErrorTexts

KeyResolved(s) ==
    /\ Truthy(ui_key[s])
    /\ mode = "local" => ui_key[s] = env
    /\ mode = "deployed" /\ Truthy(secrets) => ui_key[s] = secrets
ConfigMessageShown(s) ==
    \E i \in 1..Len(banners[s]) :
        /\ banners[s][i].kind \in {"error", "warning"}
        /\ banners[s][i].text \in
            {<<"Please set your OPENAI_API_KEY in the .env file to use this app!">>,
             <<"OpenAI API Key Required">>}
PipelineUntouched(s) ==
    /\ pc[s] = "new"
    /\ generator[s] = NoGenerator
    /\ calls[s] = NoCalls

\* C15: in the web app the generate action, and with it
\* generate_cat_content and run_full_pipeline, can be triggered only when a
\* non-empty credential has been resolved (the environment when running
\* locally; the secrets store, then the typed key when deployed);
\* otherwise a configuration message is shown and the pipeline is never
\* invoked.
C15_HardStop ==
    \A s \in sessions :
        /\ ui_stage[s] \in {"idle", "clicked", "shown"} => KeyResolved(s)
        /\ ui_stage[s] = "blocked" =>
            /\ ~Truthy(get_api_key(mode, env, secrets))
            /\ ConfigMessageShown(s)
            /\ PipelineUntouched(s)
        /\ ui_stage[s] = "idle" => PipelineUntouched(s)
        /\ ui_stage[s] # "none" /\ ~PipelineUntouched(s) =>
            /\ ui_stage[s] \in {"clicked", "shown"}
            /\ Truthy(generator[s].api_key) => generator[s].api_key = ui_key[s]

C15_Witness ==
    \E s \in sessions :
        /\ ui_stage[s] = "blocked"
        /\ mode = "deployed"
        /\ secrets = PyStr(<<>>)
        /\ Truthy(env)

\* C16: within a run fetch is invoked first; persist only after fetch has
\* returned bytes; describe only after persist has completed successfully;
\* caption only after describe has returned a description; persist and
\* describe both receive the bytes fetch returned in that run.
C16_StepOrder ==
    \A s \in sessions :
        /\ pc[s] = "fetch" => \A st \in Steps : calls[s][st] = 0
        /\ calls[s].save > 0 =>
            /\ outcome[s].fetch = "value"
            /\ image_data[s].tag = "bytes" /\ Truthy(image_data[s])
            /\ save_arg[s] = image_data[s]
        /\ calls[s].describe > 0 =>
            /\ outcome[s].save = "value"
            /\ image_path[s] = PyStr(DefaultFilename)
            /\ describe_arg[s] = image_data[s]
            /\ describe_arg[s] = save_arg[s]
        /\ calls[s].tagline > 0 =>
            /\ outcome[s].describe = "value"
            /\ Truthy(description[s])
            /\ tagline_arg[s] = description[s]
        /\ pc[s] = "describe" => calls[s].save = 1 /\ calls[s].describe = 0
        /\ pc[s] = "tagline" => calls[s].describe = 1 /\ calls[s].tagline = 0

C16_Witness ==
    \E s \in sessions :
        /\ calls[s].tagline = 1
        /\ describe_arg[s] = save_arg[s]
        /\ Len(BytesOf(save_arg[s])) = MaxBytes

\* the image a run's successful persist stores
ImageOf(s) == ImageFile(Decode(BytesOf(image_data[s])))
\* this step is the persist step of s and it returns the path
PersistSucceeds(s) ==
    /\ pc[s] = "save"
    /\ calls'[s].save = calls[s].save + 1
    /\ outcome'[s].save = "value"

\* C17: after any sequence of runs the file at the default path holds the
\* image of the most recent run whose persist step succeeded, whether or
\* not that run went on to succeed: a successful persist stores that run's
\* image, and every other step (a failed fetch, a failed validation, any
\* later step) leaves the file as it was.
C17_FileHoldsLastPersisted ==
    [][/\ \A s \in sessions : PersistSucceeds(s) => file' = ImageOf(s)
       /\ file' # file => \E s \in sessions : PersistSucceeds(s)]_vars

\* C18: two interleaved runs race on the shared image file. No lock keeps
\* a run from saving while another run is between its own save and its
\* return, every successful result names the one shared path, and so a run
\* can return success while the file at its image_path holds the image the
\* other run fetched (the witness).
C18_NoLocking ==
    \A s \in sessions :
        /\ pc[s] = "save" => ENABLED Save(s)
        /\ Returned(s) /\ Succeeded(result[s]) =>
            result[s].val.image_path = PyStr(DefaultFilename)

C18_Witness ==
    \E s \in sessions : \E o \in sessions \ {s} :
        /\ Returned(s) /\ Succeeded(result[s])
        /\ result[s].val.image_path = PyStr(DefaultFilename)
        /\ outcome[o].save = "value"
        /\ file = ImageOf(o)
        /\ file # ImageOf(s)

AllWhitespace(t) == \A i \in 1..Len(t) : t[i] \in Whitespace
\* t is s without some whitespace at its two ends
TrimOf(t, s) ==
    \E i \in 0..Len(s), j \in 0..Len(s) :
        /\ i + j <= Len(s)
        /\ AllWhitespace(SubSeq(s, 1, i))
        /\ AllWhitespace(SubSeq(s, Len(s) - j + 1, Len(s)))
        /\ t = SubSeq(s, i + 1, Len(s) - j)
NoSurroundingWhitespace(t) ==
    t # <<>> => Head(t) \notin Whitespace /\ t[Len(t)] \notin Whitespace
CaptionAnswered(s) ==
    /\ Returned(s)
    /\ calls[s].tagline = 1
    /\ caption_text[s].tag = "str"
    /\ outcome[s].tagline = "value"

\* C19: the tagline generate_funny_tagline returns is the model's text with
\* the surrounding whitespace removed; the tagline of every successful
\* result is non-empty and has no leading or trailing whitespace; a caption
\* response that is empty or whitespace-only makes run_full_pipeline return
\* the error "Failed to generate tagline".
C19_TrimmedCaption ==
    \A s \in sessions :
        /\ CaptionAnswered(s) =>
            /\ tagline[s].tag = "str"
            /\ TrimOf(tagline[s].val, caption_text[s].val)
            /\ NoSurroundingWhitespace(tagline[s].val)
            /\ AllWhitespace(caption_text[s].val) =>
                   result[s] = ErrorResult("Failed to generate tagline")
            /\ ~AllWhitespace(caption_text[s].val) =>
                   /\ Succeeded(result[s])
                   /\ result[s].val.tagline = tagline[s]
        /\ Returned(s) /\ Succeeded(result[s]) =>
            /\ result[s].val.tagline.tag = "str"
            /\ result[s].val.tagline.val # <<>>
            /\ NoSurroundingWhitespace(result[s].val.tagline.val)

C19_Witness ==
    \E s \in sessions :
        /\ CaptionAnswered(s)
        /\ Succeeded(result[s])
        /\ caption_text[s] = PyStr(<<" ", "a", " ">>)
        /\ result[s].val.tagline = PyStr(<<"a">>)

====
